---- MODULE Spec2Model ----
(***************************************************************************)
(* A model of the agent of src/agent.go: the HTTP handler handleRequest,   *)
(* the loop Agent.Run with its tool goroutines, ExecuteTool, and the       *)
(* three-channel bridge readFromNetwork / writeToNetwork.                  *)
(***************************************************************************)
EXTENDS Integers, Sequences, FiniteSets, TLC

(* ---------------------------- bounds ---------------------------------- *)

\* number of HTTP requests that arrive at the agent
NumHandlers == 2
\* number of model calls the model client answers
MaxInfer == 2
\* number of content blocks the model client returns, over all its turns
MaxContent == 2

(* ------------------------ program constants --------------------------- *)

ChanCap == 1
StatusOK == 200
StatusMethodNotAllowed == 405

Handlers == 1..NumHandlers
Methods == {"POST", "GET"}

\* the names of a.tools (CoderTools)
tools == <<"read_file", "write_file", "list_files", "invoke_documentation_agent">>
\* the tool names a model turn may ask for: a registered one and an unknown one
ToolNames == {"read_file", "delete_everything"}

\* what a tool's Function returns: (result, nil) or ("", err)
FunctionOutcomes == {[result |-> "contents", err |-> ""],
                     [result |-> "", err |-> "no such file"]}

\* the errors Run returns
ReadError == "failed to read request body"
ModelError == "model error"

\* the body of the request of handler h
Body(h) == ToString(h)

(* --------------------------- content blocks --------------------------- *)

TextBlock(t) == [type |-> "text", text |-> t, id |-> 0, name |-> ""]
ToolUseBlock(id, n) == [type |-> "tool_use", text |-> "", id |-> id, name |-> n]

NewToolResultBlock(toolID, content, isError) ==
  [type |-> "tool_result", tool_use_id |-> toolID, content |-> content,
   is_error |-> isError]

NewUserMessage(blocks) == [role |-> "user", content |-> blocks]
ToParam(content) == [role |-> "assistant", content |-> content]

\* the text of segment k of the turn of model call j: every segment the model
\* writes is a text of its own
Text(j, k) == "text" \o ToString(j) \o "." \o ToString(k)

\* the blocks the turn of model call j may hold at position k; a tool_use
\* block's call identifier is unique within its turn
BlocksAt(j, k) ==
  {TextBlock(Text(j, k))} \cup {ToolUseBlock(k, n) : n \in ToolNames}

\* the turns model call j may return when it may hold up to n blocks
ModelTurns(j, n) ==
  UNION {{s \in [1..m -> UNION {BlocksAt(j, k) : k \in 1..m}] :
            \A k \in 1..m : s[k] \in BlocksAt(j, k)}
         : m \in 0..n}

RECURSIVE ContentLen(_)
\* the number of blocks of the model turns of a transcript
ContentLen(msgs) ==
  IF msgs = <<>> THEN 0
  ELSE (IF Head(msgs).role = "assistant" THEN Len(Head(msgs).content) ELSE 0)
         + ContentLen(Tail(msgs))

\* the positions of the tool_use blocks of a response
ToolUseIdx(content) == {k \in DOMAIN content : content[k].type = "tool_use"}

(* ----------------------------- channels ------------------------------- *)

\* CanSend of a channel that takes any number of items
CanSend_Unbounded(c) == TRUE

CanSend(c) == Len(c) < ChanCap
CanRecv(c) == Len(c) > 0

(* ----------------------------- ExecuteTool ---------------------------- *)

ToolFound(toolName) == \E k \in DOMAIN tools : tools[k] = toolName

\* ExecuteTool without the lookup: the function is called whatever the name
ExecuteTool_NoLookup(toolID, toolName, out) ==
  IF out.err # ""
  THEN [block |-> NewToolResultBlock(toolID, out.err, TRUE),
        called |-> {toolName}]
  ELSE [block |-> NewToolResultBlock(toolID, out.result, FALSE),
        called |-> {toolName}]

\* ExecuteTool that reports the error of the function as a success
ExecuteTool_ErrorAsSuccess(toolID, toolName, out) ==
  IF ~ToolFound(toolName)
  THEN [block |-> NewToolResultBlock(toolID, "Tool not found", TRUE),
        called |-> {}]
  ELSE [block |-> NewToolResultBlock(toolID,
                    IF out.err # "" THEN out.err ELSE out.result, FALSE),
        called |-> {toolName}]

\* the result block ExecuteTool returns and the set of tool functions it calls
ExecuteTool(toolID, toolName, out) ==
  IF ~ToolFound(toolName)
  THEN [block |-> NewToolResultBlock(toolID, "Tool not found", TRUE),
        called |-> {}]
  ELSE IF out.err # ""
  THEN [block |-> NewToolResultBlock(toolID, out.err, TRUE),
        called |-> {toolName}]
  ELSE [block |-> NewToolResultBlock(toolID, out.result, FALSE),
        called |-> {toolName}]

(* ----------------------------- the process ---------------------------- *)

\* the agents of NewCoderAgent and NewDocAgent, and their ports
Agents == {"coder", "doc"}
CoderPort == 8080
DocPort == 8081
Port(a) == IF a = "coder" THEN CoderPort ELSE DocPort

\* the patterns Start registers for agent a, in the order of the calls
Route(a) == "/" \o a
Health == "/health"

\* no agent started: nothing registered on the default mux, no listener
ProcNew ==
  [start |-> [a \in Agents |-> "new"],
   mux |-> {},
   ports |-> {},
   crashed |-> FALSE,
   chan |-> [a \in Agents |-> <<>>],
   delivered |-> {}]

\* the coder agent started alone
ProcOneStarted ==
  [ProcNew EXCEPT !.start["coder"] = "listening",
                  !.mux = {[pattern |-> Route("coder"), agent |-> "coder"],
                           [pattern |-> Health, agent |-> "coder"]},
                  !.ports = {CoderPort}]

(* ------------------------------ state --------------------------------- *)

VARIABLES
  hpc,          \* handleRequest: position of each handler
  w,            \* the response writer of each handler
  requestChan, responseChan, doneChan,
  method,       \* the method of the request of each handler, "" before it arrives
  proc,         \* the process: Start of each agent, the default mux, listeners
  pc,           \* Run: position in the loop
  takeInput, messages, response, toolCount, toolResults,
  ch,           \* the result channel of the current batch (its model call)
  gor,          \* the tool goroutines started so far
  outMsg,       \* the argument of the writeOutput call in progress
  werr,         \* the error of the last w.Write of writeToNetwork
  runErr,       \* the error Run returned
  nInfer,       \* model calls made
  invoked,      \* tool functions called so far: <<call number, id, name>>
  cur,          \* the handler whose request the last readInput took
  reads, takes, dones,   \* per request: reads of it, writers taken and
                         \* completion signals raised in its cycle
  emitted       \* per request: the texts passed to writeOutput in its cycle

hvars == <<hpc, w, requestChan, responseChan, doneChan, method, proc>>
rvars == <<pc, takeInput, messages, response, toolCount, toolResults, ch, gor,
           outMsg, werr, runErr, nInfer, invoked, cur, reads, takes, dones, emitted>>
vars == <<hpc, w, requestChan, responseChan, doneChan, method, proc,
          pc, takeInput, messages, response, toolCount, toolResults, ch, gor,
          outMsg, werr, runErr, nInfer, invoked, cur, reads, takes, dones, emitted>>

NoWriter == [status |-> 0, body |-> "", written |-> 0, failed |-> FALSE,
             late |-> FALSE]

Init ==
  /\ hpc = [h \in Handlers |-> "idle"]
  /\ w = [h \in Handlers |-> NoWriter]
  /\ requestChan = <<>>
  /\ responseChan = <<>>
  /\ doneChan = <<>>
  /\ method = [h \in Handlers |-> ""]
  /\ proc = ProcOneStarted
  /\ pc = "top"
  /\ takeInput = TRUE
  /\ messages = <<>>
  /\ response = <<>>
  /\ toolCount = 0
  /\ toolResults = <<>>
  /\ ch = 0
  /\ gor = {}
  /\ outMsg = ""
  /\ werr = ""
  /\ runErr = ""
  /\ nInfer = 0
  /\ invoked = {}
  /\ cur = 0
  /\ reads = [h \in Handlers |-> 0]
  /\ takes = [h \in Handlers |-> 0]
  /\ dones = [h \in Handlers |-> 0]
  /\ emitted = [h \in Handlers |-> <<>>]

(* --------------------------- handleRequest ---------------------------- *)

\* HandleRequest without the method check: every request goes on to the sends
HandleRequest_NoMethodCheck(h) ==
  /\ hpc[h] = "idle"
  /\ \E m \in Methods : method' = [method EXCEPT ![h] = m]
  /\ hpc' = [hpc EXCEPT ![h] = "sendReq"]
  /\ UNCHANGED <<w, requestChan, responseChan, doneChan, proc>>
  /\ UNCHANGED rvars

\* a request arrives; a method other than POST is answered 405 at once
HandleRequest(h) ==
  /\ hpc[h] = "idle"
  /\ \E m \in Methods :
       /\ method' = [method EXCEPT ![h] = m]
       /\ IF m # "POST"
          THEN /\ w' = [w EXCEPT ![h].status = StatusMethodNotAllowed,
                                  ![h].body = "Method not allowed",
                                  ![h].written = 1]
               /\ hpc' = [hpc EXCEPT ![h] = "rejected"]
          ELSE /\ hpc' = [hpc EXCEPT ![h] = "sendReq"]
               /\ w' = w
  /\ UNCHANGED <<requestChan, responseChan, doneChan, proc>>
  /\ UNCHANGED rvars

\* a.requestChan <- r
SendRequest(h) ==
  /\ hpc[h] = "sendReq"
  /\ CanSend(requestChan)
  /\ requestChan' = Append(requestChan, h)
  /\ hpc' = [hpc EXCEPT ![h] = "sendResp"]
  /\ UNCHANGED <<w, responseChan, doneChan, method, proc>>
  /\ UNCHANGED rvars

\* a.responseChan <- w
SendWriter(h) ==
  /\ hpc[h] = "sendResp"
  /\ CanSend(responseChan)
  /\ responseChan' = Append(responseChan, h)
  /\ hpc' = [hpc EXCEPT ![h] = "waitDone"]
  /\ UNCHANGED <<w, requestChan, doneChan, method, proc>>
  /\ UNCHANGED rvars

\* WaitDone of a handler that returns without receiving from doneChan
WaitDone_NoReceive(h) ==
  /\ hpc[h] = "waitDone"
  /\ hpc' = [hpc EXCEPT ![h] = "returned"]
  /\ UNCHANGED <<w, requestChan, responseChan, doneChan, method, proc>>
  /\ UNCHANGED rvars

\* <-a.doneChan, then the handler returns
WaitDone(h) ==
  /\ hpc[h] = "waitDone"
  /\ CanRecv(doneChan)
  /\ doneChan' = Tail(doneChan)
  /\ hpc' = [hpc EXCEPT ![h] = "returned"]
  /\ UNCHANGED <<w, requestChan, responseChan, method, proc>>
  /\ UNCHANGED rvars

(* ------------------------------- Run ---------------------------------- *)

NoBlock == NewToolResultBlock(0, "", FALSE)

\* Spawn with every closure bound to one shared block variable: each goroutine
\* runs the last tool_use block of the response
Spawn_SharedBlock(batch, content) ==
  LET last == CHOOSE k \in ToolUseIdx(content) :
                \A j \in ToolUseIdx(content) : j <= k
  IN {[batch |-> batch, idx |-> k, id |-> content[last].id,
       name |-> content[last].name, st |-> "exec", block |-> NoBlock]
      : k \in ToolUseIdx(content)}

\* one goroutine of line 161 for each tool_use block of the response
Spawn(batch, content) ==
  {[batch |-> batch, idx |-> k, id |-> content[k].id, name |-> content[k].name,
    st |-> "exec", block |-> NoBlock] : k \in ToolUseIdx(content)}

\* AfterRead that reads again when the read failed
AfterRead_Retry(ok) == IF ok THEN "infer" ELSE "top"

\* lines 130-133: a failed read makes Run return
AfterRead(ok) == IF ok THEN "infer" ELSE "returned"

\* RunReadInput that reads in every iteration, whatever takeInput is
RunReadInput_EveryIteration ==
  /\ pc = "top"
  /\ CanRecv(requestChan)
  /\ LET req == Head(requestChan) IN
       /\ requestChan' = Tail(requestChan)
       /\ cur' = req
       /\ reads' = [reads EXCEPT ![req] = @ + 1]
       /\ \E ok \in BOOLEAN :
            /\ pc' = AfterRead(ok)
            /\ runErr' = IF AfterRead(ok) = "returned" THEN ReadError ELSE runErr
            /\ messages' = IF ok
                            THEN Append(messages,
                                   NewUserMessage(<<TextBlock(Body(req))>>))
                            ELSE messages
  /\ UNCHANGED <<hpc, w, responseChan, doneChan, method, proc>>
  /\ UNCHANGED <<takeInput, response, toolCount, toolResults, ch, gor, outMsg,
                 werr, nInfer, invoked, takes, dones, emitted>>

\* loop top with takeInput: readInput = readFromNetwork
RunReadInput ==
  /\ pc = "top"
  /\ takeInput
  /\ CanRecv(requestChan)
  /\ LET req == Head(requestChan) IN
       /\ requestChan' = Tail(requestChan)
       /\ cur' = req
       /\ reads' = [reads EXCEPT ![req] = @ + 1]
       /\ \E ok \in BOOLEAN :
            /\ pc' = AfterRead(ok)
            /\ runErr' = IF AfterRead(ok) = "returned" THEN ReadError ELSE runErr
            /\ messages' = IF ok
                            THEN Append(messages,
                                   NewUserMessage(<<TextBlock(Body(req))>>))
                            ELSE messages
  /\ UNCHANGED <<hpc, w, responseChan, doneChan, method, proc>>
  /\ UNCHANGED <<takeInput, response, toolCount, toolResults, ch, gor, outMsg,
                 werr, nInfer, invoked, takes, dones, emitted>>

\* loop top without takeInput: the read is skipped
RunSkipInput ==
  /\ pc = "top"
  /\ ~takeInput
  /\ pc' = "infer"
  /\ UNCHANGED hvars
  /\ UNCHANGED <<takeInput, messages, response, toolCount, toolResults, ch,
                 gor, outMsg, werr, runErr, nInfer, invoked, cur, reads, takes,
                 dones, emitted>>

\* AfterInferError that calls the model again
AfterInferError_Retry == "infer"

\* lines 141-143: a failed model call makes Run return
AfterInferError == "returned"

\* a.Infer fails: Run returns the error
RunInferError ==
  /\ pc = "infer"
  /\ nInfer < MaxInfer
  /\ nInfer' = nInfer + 1
  /\ pc' = AfterInferError
  /\ runErr' = IF AfterInferError = "returned" THEN ModelError ELSE runErr
  /\ UNCHANGED hvars
  /\ UNCHANGED <<takeInput, messages, response, toolCount, toolResults, ch,
                 gor, outMsg, werr, invoked, cur, reads, takes, dones, emitted>>

\* RunInfer without line 145: the model turn is not appended
RunInfer_NoAppend ==
  /\ pc = "infer"
  /\ nInfer < MaxInfer
  /\ \E r \in ModelTurns(nInfer + 1, MaxContent - ContentLen(messages)) :
       /\ nInfer' = nInfer + 1
       /\ response' = r
       /\ messages' = messages
       /\ toolResults' = <<>>
       /\ ch' = nInfer + 1
       /\ toolCount' = Cardinality(ToolUseIdx(r))
       /\ gor' = gor \cup Spawn(nInfer + 1, r)
  /\ pc' = "collect"
  /\ UNCHANGED hvars
  /\ UNCHANGED <<takeInput, outMsg, werr, runErr, invoked, cur, reads, takes,
                 dones, emitted>>

\* RunInfer whose collection loop waits for one result however many tool
\* goroutines the turn started
RunInfer_CollectOne ==
  /\ pc = "infer"
  /\ nInfer < MaxInfer
  /\ \E r \in ModelTurns(nInfer + 1, MaxContent - ContentLen(messages)) :
       /\ nInfer' = nInfer + 1
       /\ response' = r
       /\ messages' = Append(messages, ToParam(r))
       /\ toolResults' = <<>>
       /\ ch' = nInfer + 1
       /\ toolCount' = IF ToolUseIdx(r) = {} THEN 0 ELSE 1
       /\ gor' = gor \cup Spawn(nInfer + 1, r)
  /\ pc' = "collect"
  /\ UNCHANGED hvars
  /\ UNCHANGED <<takeInput, outMsg, werr, runErr, invoked, cur, reads, takes,
                 dones, emitted>>

\* a.Infer succeeds: the turn is appended and its tools are started
RunInfer ==
  /\ pc = "infer"
  /\ nInfer < MaxInfer
  /\ \E r \in ModelTurns(nInfer + 1, MaxContent - ContentLen(messages)) :
       /\ nInfer' = nInfer + 1
       /\ response' = r
       /\ messages' = Append(messages, ToParam(r))
       /\ toolResults' = <<>>
       /\ ch' = nInfer + 1
       /\ toolCount' = Cardinality(ToolUseIdx(r))
       /\ gor' = gor \cup Spawn(nInfer + 1, r)
  /\ pc' = "collect"
  /\ UNCHANGED hvars
  /\ UNCHANGED <<takeInput, outMsg, werr, runErr, invoked, cur, reads, takes,
                 dones, emitted>>

\* ToolExec of a dispatcher that runs the tools of a batch one after the other
ToolExec_Sequential(g) ==
  /\ g \in gor
  /\ g.st = "exec"
  /\ \A o \in gor : (o.batch = g.batch /\ o.idx < g.idx) => o.st = "done"
  /\ \E out \in FunctionOutcomes :
       LET r == ExecuteTool(g.id, g.name, out) IN
         /\ gor' = (gor \ {g}) \cup {[g EXCEPT !.st = "send", !.block = r.block]}
         /\ invoked' = invoked \cup {<<g.batch, g.id, n>> : n \in r.called}
  /\ UNCHANGED hvars
  /\ UNCHANGED <<pc, takeInput, messages, response, toolCount, toolResults, ch,
                 outMsg, werr, runErr, nInfer, cur, reads, takes, dones,
                 emitted>>

\* a tool goroutine runs ExecuteTool and reaches its send on ch
ToolExec(g) ==
  /\ g \in gor
  /\ g.st = "exec"
  /\ \E out \in FunctionOutcomes :
       LET r == ExecuteTool(g.id, g.name, out) IN
         /\ gor' = (gor \ {g}) \cup {[g EXCEPT !.st = "send", !.block = r.block]}
         /\ invoked' = invoked \cup {<<g.batch, g.id, n>> : n \in r.called}
  /\ UNCHANGED hvars
  /\ UNCHANGED <<pc, takeInput, messages, response, toolCount, toolResults, ch,
                 outMsg, werr, runErr, nInfer, cur, reads, takes, dones,
                 emitted>>

\* RunCollect that gives up on a goroutine still running its tool and takes
\* a timeout result in its place
RunCollect_Timeout ==
  /\ pc = "collect"
  /\ Len(toolResults) < toolCount
  /\ \E g \in gor :
       /\ g.batch = ch
       /\ \/ /\ g.st = "send"
             /\ toolResults' = Append(toolResults, g.block)
             /\ gor' = (gor \ {g}) \cup {[g EXCEPT !.st = "done"]}
          \/ /\ g.st = "exec"
             /\ toolResults' =
                  Append(toolResults, NewToolResultBlock(g.id, "timeout", TRUE))
             /\ gor' = gor
  /\ UNCHANGED hvars
  /\ UNCHANGED <<pc, takeInput, messages, response, toolCount, ch, outMsg,
                 werr, runErr, nInfer, invoked, cur, reads, takes, dones,
                 emitted>>

\* one pass of the loop of line 169: <-ch meets the send of one goroutine
RunCollect ==
  /\ pc = "collect"
  /\ Len(toolResults) < toolCount
  /\ \E g \in gor :
       /\ g.batch = ch
       /\ g.st = "send"
       /\ toolResults' = Append(toolResults, g.block)
       /\ gor' = (gor \ {g}) \cup {[g EXCEPT !.st = "done"]}
  /\ UNCHANGED hvars
  /\ UNCHANGED <<pc, takeInput, messages, response, toolCount, ch, outMsg,
                 werr, runErr, nInfer, invoked, cur, reads, takes, dones,
                 emitted>>

\* TakeInputAfter that asks for input after every turn
TakeInputAfter_Always(results) == TRUE

\* lines 174-178: input is taken next exactly when no tool result was collected
TakeInputAfter(results) == Len(results) = 0

\* RunEmit that writes the text of the last segment of the turn
RunEmit_LastSegment ==
  /\ pc = "collect"
  /\ Len(toolResults) = toolCount
  /\ Len(toolResults) = 0
  /\ takeInput' = TakeInputAfter(toolResults)
  /\ IF Len(response) = 0
     THEN /\ pc' = "panicked"
          /\ UNCHANGED <<outMsg, emitted>>
     ELSE /\ pc' = "write"
          /\ outMsg' = response[Len(response)].text
          /\ emitted' = [emitted EXCEPT
                          ![cur] = Append(@, response[Len(response)].text)]
  /\ UNCHANGED hvars
  /\ UNCHANGED <<messages, response, toolCount, toolResults, ch, gor, werr,
                 runErr, nInfer, invoked, cur, reads, takes, dones>>

\* lines 174-180 with no tool result: writeOutput(response.Content[0].Text);
\* indexing an empty Content panics
RunEmit ==
  /\ pc = "collect"
  /\ Len(toolResults) = toolCount
  /\ Len(toolResults) = 0
  /\ takeInput' = TakeInputAfter(toolResults)
  /\ IF Len(response) = 0
     THEN /\ pc' = "panicked"
          /\ UNCHANGED <<outMsg, emitted>>
     ELSE /\ pc' = "write"
          /\ outMsg' = response[1].text
          /\ emitted' = [emitted EXCEPT ![cur] = Append(@, response[1].text)]
  /\ UNCHANGED hvars
  /\ UNCHANGED <<messages, response, toolCount, toolResults, ch, gor, werr,
                 runErr, nInfer, invoked, cur, reads, takes, dones>>

\* RunFeedBack that makes Run return when a result of the batch is a failure
RunFeedBack_AbortOnFailure ==
  /\ pc = "collect"
  /\ Len(toolResults) = toolCount
  /\ Len(toolResults) # 0
  /\ takeInput' = TakeInputAfter(toolResults)
  /\ IF \E k \in DOMAIN toolResults : toolResults[k].is_error
     THEN /\ pc' = "returned"
          /\ runErr' = "tool failed"
          /\ messages' = messages
     ELSE /\ pc' = "top"
          /\ runErr' = runErr
          /\ messages' = Append(messages, NewUserMessage(toolResults))
  /\ UNCHANGED hvars
  /\ UNCHANGED <<response, toolCount, toolResults, ch, gor, outMsg, werr,
                 nInfer, invoked, cur, reads, takes, dones, emitted>>

\* RunFeedBack that feeds back as soon as one result has arrived
RunFeedBack_Partial ==
  /\ pc = "collect"
  /\ Len(toolResults) # 0
  /\ takeInput' = TakeInputAfter(toolResults)
  /\ messages' = Append(messages, NewUserMessage(toolResults))
  /\ pc' = "top"
  /\ UNCHANGED hvars
  /\ UNCHANGED <<response, toolCount, toolResults, ch, gor, outMsg, werr,
                 runErr, nInfer, invoked, cur, reads, takes, dones, emitted>>

\* lines 174-180 with tool results: they are fed back as one user turn
RunFeedBack ==
  /\ pc = "collect"
  /\ Len(toolResults) = toolCount
  /\ Len(toolResults) # 0
  /\ takeInput' = TakeInputAfter(toolResults)
  /\ messages' = Append(messages, NewUserMessage(toolResults))
  /\ pc' = "top"
  /\ UNCHANGED hvars
  /\ UNCHANGED <<response, toolCount, toolResults, ch, gor, outMsg, werr,
                 runErr, nInfer, invoked, cur, reads, takes, dones, emitted>>

\* AfterWrite that returns the error of w.Write before the signal is sent
AfterWrite_ReturnOnError(ok) == IF ok THEN "signal" ELSE "top"

\* writeToNetwork, lines 270-273: whatever w.Write returned, go on to the send
\* on doneChan
AfterWrite(ok) == "signal"

\* writeToNetwork, lines 265-270: take the writer and write the message
RunWriteTake ==
  /\ pc = "write"
  /\ CanRecv(responseChan)
  /\ LET h == Head(responseChan) IN
       /\ responseChan' = Tail(responseChan)
       /\ takes' = [takes EXCEPT ![cur] = @ + 1]
       /\ \E ok \in BOOLEAN :
            /\ w' = [w EXCEPT ![h] =
                       [status |-> StatusOK,
                        body |-> IF ok THEN outMsg ELSE "",
                        written |-> @.written + 1,
                        failed |-> ~ok,
                        late |-> hpc[h] = "returned"]]
            /\ werr' = IF ok THEN "" ELSE "write failed"
            /\ pc' = AfterWrite(ok)
  /\ UNCHANGED <<hpc, requestChan, doneChan, method, proc>>
  /\ UNCHANGED <<takeInput, messages, response, toolCount, toolResults, ch,
                 gor, outMsg, runErr, nInfer, invoked, cur, reads, dones,
                 emitted>>

\* AfterOutput that makes Run return when writeOutput returned an error
AfterOutput_AbortOnError(err) == IF err = "" THEN "top" ELSE "returned"

\* line 176: the error writeOutput returns is dropped, the loop goes on
AfterOutput(err) == "top"

\* writeToNetwork, line 273: a.doneChan <- true, then back to the loop top
RunSignalDone ==
  /\ pc = "signal"
  /\ CanSend(doneChan)
  /\ doneChan' = Append(doneChan, TRUE)
  /\ dones' = [dones EXCEPT ![cur] = @ + 1]
  /\ pc' = AfterOutput(werr)
  /\ UNCHANGED <<hpc, w, requestChan, responseChan, method, proc>>
  /\ UNCHANGED <<takeInput, messages, response, toolCount, toolResults, ch,
                 gor, outMsg, werr, runErr, nInfer, invoked, cur, reads, takes,
                 emitted>>

Next ==
  \/ \E h \in Handlers : HandleRequest(h)
  \/ \E h \in Handlers : SendRequest(h)
  \/ \E h \in Handlers : SendWriter(h)
  \/ \E h \in Handlers : WaitDone(h)
  \/ RunReadInput
  \/ RunSkipInput
  \/ RunInferError
  \/ RunInfer
  \/ \E g \in gor : ToolExec(g)
  \/ RunCollect
  \/ RunEmit
  \/ RunFeedBack
  \/ RunWriteTake
  \/ RunSignalDone

Spec == Init /\ [][Next]_vars

\* the scheduler runs every goroutine that can take a step: Run, the tool
\* goroutines, and a handler at a channel operation (the goroutines waiting
\* on a channel are served first come, first served)
Fairness ==
  /\ WF_vars(RunReadInput)
  /\ WF_vars(RunSkipInput)
  /\ WF_vars(RunInfer \/ RunInferError)
  /\ WF_vars(\E g \in gor : ToolExec(g))
  /\ WF_vars(RunCollect)
  /\ WF_vars(RunEmit)
  /\ WF_vars(RunFeedBack)
  /\ WF_vars(RunWriteTake)
  /\ WF_vars(RunSignalDone)
  /\ \A h \in Handlers :
       /\ SF_vars(SendRequest(h))
       /\ SF_vars(SendWriter(h))
       /\ SF_vars(WaitDone(h))

\* the steps of a run in which only the first handler's request is a POST
SingleNext ==
  \/ HandleRequest(1)
  \/ \E h \in Handlers \ {1} : HandleRequest(h) /\ method'[h] # "POST"
  \/ \E h \in Handlers : SendRequest(h)
  \/ \E h \in Handlers : SendWriter(h)
  \/ \E h \in Handlers : WaitDone(h)
  \/ RunReadInput
  \/ RunSkipInput
  \/ RunInferError
  \/ RunInfer
  \/ \E g \in gor : ToolExec(g)
  \/ RunCollect
  \/ RunEmit
  \/ RunFeedBack
  \/ RunWriteTake
  \/ RunSignalDone

\* one POST request and no other in flight, under the scheduler's fairness
LiveSingle == Init /\ [][SingleNext]_vars /\ Fairness

(* ------------------------- reading the state -------------------------- *)

\* a turn of tool results, as line 179 appends it
IsResults(m) ==
  /\ m.role = "user"
  /\ Len(m.content) > 0
  /\ m.content[1].type = "tool_result"

LastIsResults == messages # <<>> /\ IsResults(messages[Len(messages)])

\* the call identifiers a model turn asks for
RequestIds(m) == {m.content[k].id : k \in ToolUseIdx(m.content)}

(* ------------------------------- C1 ----------------------------------- *)

\* C1: every tool-result turn of the transcript follows a model turn with
\* N >= 1 tool requests and holds exactly N results, one for each call
\* identifier of that turn, in whatever order the executions finished.
C1_ResultsMatchRequests ==
  \A i \in DOMAIN messages :
    IsResults(messages[i]) =>
      /\ i > 1
      /\ messages[i - 1].role = "assistant"
      /\ Len(messages[i].content) = Cardinality(ToolUseIdx(messages[i - 1].content))
      /\ Len(messages[i].content) >= 1
      /\ \A id \in RequestIds(messages[i - 1]) :
           Cardinality({k \in DOMAIN messages[i].content :
                          messages[i].content[k].tool_use_id = id}) = 1
      /\ \A k \in DOMAIN messages[i].content :
           messages[i].content[k].tool_use_id \in RequestIds(messages[i - 1])

\* a turn of two results fed back in the order opposite to the requests
C1_Witness ==
  \E i \in DOMAIN messages :
    /\ IsResults(messages[i])
    /\ Len(messages[i].content) = 2
    /\ messages[i].content[1].tool_use_id = 2
    /\ messages[i].content[2].tool_use_id = 1

(* ------------------------------- C2 ----------------------------------- *)

\* C2: of two POST requests issued concurrently, each caller receives as its
\* response body the text the agent emitted for its own input: a handler
\* that has returned holds, on its own writer, the one text emitted in the
\* cycle that read its request (unless that write itself failed).
C2_AnsweredWithOwnText ==
  \A h \in Handlers :
    hpc[h] = "returned" =>
      /\ Len(emitted[h]) = 1
      /\ w[h].written = 1
      /\ w[h].failed \/ w[h].body = emitted[h][1]

(* ------------------------------- C3 ----------------------------------- *)

\* the requests readInput has returned and whose cycle has not raised the
\* completion signal
InFlight == {h \in Handlers : reads[h] > dones[h]}

\* C3: at most one network cycle is in flight: a step in which readInput
\* takes a request starts from a state where the completion signal of every
\* request read before has been raised, and never more than one request is
\* read and not completed.
C3_OneCycleInFlight ==
  [][/\ Cardinality(InFlight) <= 1
     /\ reads' # reads => InFlight = {}]_vars

\* the second request has been read after the first cycle's signal
C3_Witness ==
  \E h1, h2 \in Handlers :
    /\ h1 # h2
    /\ reads[h1] = 1 /\ dones[h1] = 1
    /\ reads[h2] = 1 /\ dones[h2] = 0

(* ------------------------------- C4 ----------------------------------- *)

\* the cycle of request h is over: Run went on to a later read, or is back at
\* the loop top waiting for input
CycleOver(h) ==
  /\ reads[h] > 0
  /\ cur # h \/ (pc = "top" /\ takeInput)

\* C4: the completion signal is raised at most once for a request, and for a
\* request whose cycle is over (write succeeded or failed) exactly once; in
\* that cycle readInput took exactly one request and writeOutput exactly one
\* writer.
C4_ExactlyOncePerCycle ==
  \A h \in Handlers :
    /\ reads[h] <= 1 /\ takes[h] <= 1 /\ dones[h] <= 1
    /\ takes[h] <= reads[h] /\ dones[h] <= takes[h]
    /\ CycleOver(h) => reads[h] = 1 /\ takes[h] = 1 /\ dones[h] = 1

\* a cycle with a failed tool and a failed write is over, its signal raised
C4_Witness ==
  /\ pc = "top" /\ takeInput /\ cur # 0
  /\ werr # ""
  /\ dones[cur] = 1
  /\ \E i \in DOMAIN messages :
       IsResults(messages[i]) /\ messages[i].content[1].is_error

(* ------------------------------- C5 ----------------------------------- *)

\* C5: after a model turn with zero tool requests, the next step of Run is
\* the call of writeOutput, and no tool goroutine exists for that turn and no
\* tool function is called.
C5_NoToolsThenEmit ==
  [][(pc = "collect" /\ toolCount = 0) =>
       /\ \A g \in gor : g.batch # ch
       /\ invoked' = invoked
       /\ pc' # "collect" => pc' = "write"]_vars

(* ------------------------------- C6 ----------------------------------- *)

\* C6: a tool execution whose name is not in the tool set returns the result
\* (identifier of the request, "Tool not found", failure) and calls no tool
\* function.
C6_UnknownToolNotFound ==
  /\ \A g \in gor :
       (g.st # "exec" /\ ~ToolFound(g.name)) =>
         /\ g.block = NewToolResultBlock(g.id, "Tool not found", TRUE)
         /\ \A c \in invoked : ~(c[1] = g.batch /\ c[2] = g.id)
  /\ \A c \in invoked : ToolFound(c[3])

\* ExecuteTool has returned for the unknown tool "delete_everything"
C6_Witness ==
  \E g \in gor : g.st # "exec" /\ g.name = "delete_everything"

(* ------------------------------- C7 ----------------------------------- *)

\* C7: a failed tool execution never makes Run return: Run returns only with
\* a read error or a model error; a batch holding a failed result is fed back
\* whole as the next turn, and after a feedback the next step of Run is the
\* model call, with no read.
C7_ToolFailureNotFatal ==
  [][/\ pc = "returned" => runErr \in {ReadError, ModelError}
     /\ (/\ pc = "collect"
         /\ \E k \in DOMAIN toolResults : toolResults[k].is_error
         /\ pc' # "collect")
          => /\ pc' = "top"
             /\ ~takeInput'
             /\ messages' = Append(messages, NewUserMessage(toolResults))
     /\ (pc = "top" /\ ~takeInput /\ pc' # "top")
          => (pc' = "infer" /\ reads' = reads)]_vars

\* a result turn with the error of a tool function, followed by a model turn
C7_Witness ==
  \E i \in DOMAIN messages :
    /\ IsResults(messages[i])
    /\ messages[i].content[1].is_error
    /\ messages[i].content[1].content = "no such file"
    /\ i < Len(messages)

(* ------------------------------- C8 ----------------------------------- *)

\* C8: a model call that fails (it appends no turn) makes Run return the model
\* error in that step, and from then on Run does nothing: no model call, no
\* read, no tool execution, no write.
C8_ModelErrorFatal ==
  [][/\ (nInfer' # nInfer /\ messages' = messages)
          => (pc' = "returned" /\ runErr' = ModelError)
     /\ runErr = ModelError => (pc = "returned" /\ UNCHANGED rvars)]_vars

\* Run has returned the model error and a request waits unread
C8_Witness ==
  /\ runErr = ModelError
  /\ pc = "returned"
  /\ CanRecv(requestChan)

(* ------------------------------- C9 ----------------------------------- *)

\* C9: a read that fails (it takes a request and appends no turn) makes Run
\* return the read error in that step, with no model call, and from then on
\* Run does nothing.
C9_ReadErrorFatal ==
  [][/\ (reads' # reads /\ messages' = messages)
          => (pc' = "returned" /\ runErr' = ReadError /\ nInfer' = nInfer)
     /\ runErr = ReadError => (pc = "returned" /\ UNCHANGED rvars)]_vars

\* Run has returned the read error of the second request, which waits unread
\* behind no one
C9_Witness ==
  /\ runErr = ReadError
  /\ pc = "returned"
  /\ \E h \in Handlers : reads[h] = 1 /\ cur = h /\ hpc[h] = "waitDone"

(* ------------------------------- C10 ---------------------------------- *)

\* C10: at the loop top takeInput is false exactly when the last turn of the
\* transcript is a turn of tool results; the step that leaves the loop top is
\* a read exactly when it is not; so a turn of tool results is followed by
\* the model's turn, never by a user input.
C10_InputSkippedAfterFeedback ==
  [][/\ pc = "top" => (takeInput <=> ~LastIsResults)
     /\ (pc = "top" /\ pc' # "top") => ((reads' # reads) <=> ~LastIsResults)
     /\ \A i \in DOMAIN messages :
          (IsResults(messages[i]) /\ i < Len(messages))
            => messages[i + 1].role = "assistant"]_vars

\* the read was skipped after a feedback while a request was waiting, and the
\* model has answered the results
C10_Witness ==
  /\ Len(messages) >= 2
  /\ IsResults(messages[Len(messages) - 1])
  /\ messages[Len(messages)].role = "assistant"
  /\ CanRecv(requestChan)

(* ------------------------------- C11 ---------------------------------- *)

\* C11: when w.Write fails in writeToNetwork, the next step of Run still
\* sends the completion signal, the error stays the outcome of the write, and
\* Run does not return: it is back at the loop top, about to read input.
C11_WriteFailureNotFatal ==
  [][/\ (takes' # takes /\ werr' # "") => pc' = "signal"
     /\ (pc = "signal" /\ werr # "" /\ pc' # "signal")
          => /\ pc' = "top"
             /\ takeInput'
             /\ doneChan' = Append(doneChan, TRUE)
             /\ dones'[cur] = dones[cur] + 1
             /\ werr' = werr
             /\ runErr' = ""]_vars

\* after a failed write a handler was released and Run read the next request
C11_Witness ==
  /\ \E h \in Handlers : w[h].failed /\ hpc[h] = "returned"
  /\ \E h \in Handlers : cur = h /\ reads[h] = 1 /\ takes[h] = 0 /\ pc = "infer"
  /\ werr # ""

(* ------------------------------- C12 ---------------------------------- *)

\* C12: once Run has returned a fatal error in the cycle of a request, the
\* completion signal of that request is never raised and the handler of that
\* request never returns: it stays blocked in handleRequest.
C12_FatalErrorHangsRequest ==
  (pc = "returned" /\ cur # 0) =>
    /\ dones[cur] = 0
    /\ hpc[cur] # "returned"

(* ------------------------------- C13 ---------------------------------- *)

\* C13: Run appends a turn of tool results or calls the model only when
\* every tool goroutine started so far has delivered its result: no partial
\* batch is fed back.
C13_NoPartialBatch ==
  [][(\/ nInfer' # nInfer
      \/ (Len(messages') > Len(messages) /\ IsResults(messages'[Len(messages')])))
       => \A g \in gor : g.st = "done"]_vars

\* a batch of two was fed back whole and the model was called again
C13_Witness ==
  /\ nInfer = 2
  /\ \E i \in DOMAIN messages :
       IsResults(messages[i]) /\ Len(messages[i].content) = 2
  /\ \A g \in gor : g.st = "done"

(* ------------------------------- C14 ---------------------------------- *)

\* C14: once the model turn is taken, every tool request of it has its
\* goroutine, and a goroutine that has not run its tool yet can always run
\* it, whatever the state of the other executions of the batch: no execution
\* waits for another one.
C14_AllStartedNoneWaits ==
  /\ pc = "collect" =>
       \A k \in ToolUseIdx(response) :
         \E g \in gor : g.batch = ch /\ g.idx = k
  /\ \A g \in gor : g.st = "exec" => ENABLED ToolExec(g)

\* the two executions of a batch are in progress at the same time
C14_Witness ==
  \E g1, g2 \in gor :
    /\ g1.batch = ch /\ g2.batch = ch
    /\ g1.idx < g2.idx
    /\ g1.st = "exec" /\ g2.st = "exec"

(* ------------------------------- C15 ---------------------------------- *)

\* the tool requests of a model turn and the results of a turn, as sets
Requests(m) == {[id |-> m.content[k].id] : k \in ToolUseIdx(m.content)}
Results(m) == {[id |-> m.content[k].tool_use_id] : k \in DOMAIN m.content}

HasRequests(m) == m.role = "assistant" /\ ToolUseIdx(m.content) # {}

\* C15: in the transcript a model turn with tool requests is followed at
\* once by the turn of the results of exactly its requests, a turn of results
\* comes at once after such a model turn, a tool runs only when the turn that
\* asks for it is the last of the transcript, and the transcript only grows
\* at its end.
C15_TranscriptShape ==
  [][/\ \A i \in DOMAIN messages :
          (HasRequests(messages[i]) /\ i < Len(messages)) =>
            /\ IsResults(messages[i + 1])
            /\ Results(messages[i + 1]) = Requests(messages[i])
            /\ Len(messages[i + 1].content) = Cardinality(Requests(messages[i]))
     /\ \A i \in DOMAIN messages :
          IsResults(messages[i]) => (i > 1 /\ HasRequests(messages[i - 1]))
     /\ \A g \in gor :
          g.st # "done" =>
            /\ messages # <<>>
            /\ messages[Len(messages)] = ToParam(response)
            /\ g.idx \in ToolUseIdx(response)
            /\ response[g.idx] = ToolUseBlock(g.id, g.name)
     /\ Len(messages') >= Len(messages)
     /\ SubSeq(messages', 1, Len(messages)) = messages]_vars

\* a user turn, a model turn with a request, its results, the model's answer
C15_Witness ==
  /\ Len(messages) = 4
  /\ HasRequests(messages[2])
  /\ IsResults(messages[3])
  /\ messages[4].role = "assistant"
  /\ ~HasRequests(messages[4])

(* ------------------------------- C16 ---------------------------------- *)

\* the request of handler h is answered: its writer holds the emitted text
\* with the success status, the handler has returned and Run awaits input
Answered(h) ==
  /\ hpc[h] = "returned"
  /\ w[h].status = StatusOK
  /\ Len(emitted[h]) = 1
  /\ w[h].failed \/ w[h].body = emitted[h][1]
  /\ pc = "top" /\ takeInput

\* C16: with a single POST request, once the model has returned a turn
\* without tool requests in the cycle of that request, the request is
\* eventually answered.
C16_SingleRequestAnswered ==
  (pc = "collect" /\ toolCount = 0 /\ cur = 1) ~> Answered(1)

(* ------------------------------- C17 ---------------------------------- *)

\* C17: the inbound-request slot, the outbound-response slot and the
\* completion signal each hold at most one pending item, and a step never
\* adds an item to a slot that holds one.
C17_SlotsHoldAtMostOne ==
  [][/\ Len(requestChan) <= 1 /\ Len(responseChan) <= 1 /\ Len(doneChan) <= 1
     /\ Len(requestChan) = 1 => Len(requestChan') <= 1
     /\ Len(responseChan) = 1 => Len(responseChan') <= 1
     /\ Len(doneChan) = 1 => Len(doneChan') <= 1]_vars

\* both handler-side slots are full and a second handler is held at its send
C17_Witness ==
  /\ Len(requestChan) = 1
  /\ Len(responseChan) = 1
  /\ \E h \in Handlers : hpc[h] = "sendResp" /\ Head(responseChan) # h

(* ------------------- Start: two agents, one process -------------------- *)

\* the process before any Start; the agents' loops have not taken anything
ProcInit ==
  /\ hpc = [h \in Handlers |-> "idle"]
  /\ w = [h \in Handlers |-> NoWriter]
  /\ requestChan = <<>> /\ responseChan = <<>> /\ doneChan = <<>>
  /\ method = [h \in Handlers |-> ""]
  /\ proc = ProcNew
  /\ pc = "top" /\ takeInput = TRUE
  /\ messages = <<>> /\ response = <<>>
  /\ toolCount = 0 /\ toolResults = <<>> /\ ch = 0 /\ gor = {}
  /\ outMsg = "" /\ werr = "" /\ runErr = "" /\ nInfer = 0
  /\ invoked = {} /\ cur = 0
  /\ reads = [h \in Handlers |-> 0]
  /\ takes = [h \in Handlers |-> 0]
  /\ dones = [h \in Handlers |-> 0]
  /\ emitted = [h \in Handlers |-> <<>>]

\* the patterns registered on http.DefaultServeMux
Registered == {e.pattern : e \in proc.mux}

\* http.HandleFunc panics when the pattern is already registered
HandleFunc(pattern, a, next) ==
  IF pattern \in Registered
  THEN proc' = [proc EXCEPT !.crashed = TRUE, !.start[a] = "panicked"]
  ELSE proc' = [proc EXCEPT !.mux = @ \cup {[pattern |-> pattern, agent |-> a]},
                            !.start[a] = next]

\* Start of agent a: http.HandleFunc("/<name>", a.handleRequest)
StartRoute(a) ==
  /\ ~proc.crashed
  /\ proc.start[a] = "new"
  /\ HandleFunc(Route(a), a, "routed")
  /\ UNCHANGED <<hpc, w, requestChan, responseChan, doneChan, method, rvars>>

\* Start of agent a: http.HandleFunc("/health", ...)
StartHealth(a) ==
  /\ ~proc.crashed
  /\ proc.start[a] = "routed"
  /\ HandleFunc(Health, a, "health")
  /\ UNCHANGED <<hpc, w, requestChan, responseChan, doneChan, method, rvars>>

\* Start of agent a: go http.ListenAndServe(":<port>", nil)
StartListen(a) ==
  /\ ~proc.crashed
  /\ proc.start[a] = "health"
  /\ proc' = [proc EXCEPT !.ports = @ \cup {Port(a)}, !.start[a] = "listening"]
  /\ UNCHANGED <<hpc, w, requestChan, responseChan, doneChan, method, rvars>>

\* request h for an agent's route arrives at a listening port: the listener
\* serves the default mux, whose entry names the agent whose handleRequest
\* runs and sends on that agent's requestChan
Serve(h, port, path) ==
  /\ ~proc.crashed
  /\ port \in proc.ports
  /\ \A d \in proc.delivered : d.req # h
  /\ \E e \in proc.mux :
       /\ e.pattern = path
       /\ CanSend(proc.chan[e.agent])
       /\ proc' = [proc EXCEPT
                     !.chan[e.agent] = Append(@, h),
                     !.delivered = @ \cup {[req |-> h, port |-> port,
                                            agent |-> e.agent]}]
  /\ UNCHANGED <<hpc, w, requestChan, responseChan, doneChan, method, rvars>>

\* the loop of agent a takes the request from its requestChan
Take(a) ==
  /\ ~proc.crashed
  /\ CanRecv(proc.chan[a])
  /\ proc' = [proc EXCEPT !.chan[a] = Tail(@)]
  /\ UNCHANGED <<hpc, w, requestChan, responseChan, doneChan, method, rvars>>

ProcNext ==
  \/ \E a \in Agents : StartRoute(a)
  \/ \E a \in Agents : StartHealth(a)
  \/ \E a \in Agents : StartListen(a)
  \/ \E h \in Handlers, port \in {CoderPort, DocPort}, a \in Agents :
       Serve(h, port, Route(a))
  \/ \E a \in Agents : Take(a)

ProcSpec == ProcInit /\ [][ProcNext]_vars

(* ------------------------------- C18 ---------------------------------- *)

\* C18: with two agents in one process, a request that arrives at an agent's
\* port is delivered only to that agent's channels, and starting an agent
\* does not bring down the process the other agent runs in.
C18_AgentsIsolated ==
  /\ ~proc.crashed
  /\ \A d \in proc.delivered : d.port = Port(d.agent)

(* ------------------------------- C19 ---------------------------------- *)

\* the executions of the current batch that have not completed
Running == {g \in gor : g.batch = ch /\ g.st = "exec"}

\* C19: while an execution of the batch has not completed, Run stays in its
\* collection loop: no step appends the tool-result turn, calls the model or
\* emits output, whatever the other executions of the batch have done.
C19_HungToolHangsBatch ==
  [][Running # {} =>
       /\ pc = "collect" /\ pc' = "collect"
       /\ Len(toolResults) < toolCount
       /\ messages' = messages
       /\ nInfer' = nInfer
       /\ emitted' = emitted /\ outMsg' = outMsg /\ dones' = dones]_vars

\* every other execution of the batch has finished and been collected, one is
\* still running
C19_Witness ==
  /\ Cardinality(Running) = 1
  /\ toolCount = 2
  /\ Len(toolResults) = 1
  /\ \A g \in gor : g.batch = ch /\ g \notin Running => g.st = "done"

(* ------------------------------- C20 ---------------------------------- *)

\* the requests that arrived with a method other than POST
NotPost == {h \in Handlers : method[h] \notin {"", "POST"}}

\* the items of a channel
Items(c) == {c[i] : i \in 1..Len(c)}

\* C20: a request whose method is not POST is answered 405 by the step that
\* receives it; that step leaves the three slots and the whole state of the
\* loop unchanged, and the request is never on the request or response slot,
\* never waits for the completion signal and is never read by the loop.
C20_NonPostRejected ==
  [][/\ \A h \in Handlers :
          (method[h] = "" /\ method'[h] \notin {"", "POST"}) =>
            /\ hpc'[h] = "rejected"
            /\ w'[h].status = StatusMethodNotAllowed
            /\ UNCHANGED <<requestChan, responseChan, doneChan>>
            /\ UNCHANGED rvars
     /\ \A h \in NotPost :
          /\ hpc[h] = "rejected" /\ hpc'[h] = "rejected"
          /\ h \notin Items(requestChan) \cup Items(responseChan)
          /\ cur # h
          /\ reads[h] = 0 /\ takes[h] = 0 /\ dones[h] = 0
          /\ emitted[h] = <<>>]_vars

\* one request has been rejected and the loop is in the middle of the cycle
\* of another request
C20_Witness ==
  \E h \in NotPost, g \in Handlers :
    /\ g # h
    /\ hpc[h] = "rejected"
    /\ reads[g] = 1
    /\ Len(messages) >= 2
    /\ hpc[g] = "waitDone"

(* ------------------------------- C21 ---------------------------------- *)

\* all the texts emitted so far, over all requests
AllEmitted == UNION {{emitted[h][i] : i \in 1..Len(emitted[h])} : h \in Handlers}

\* C21: the step that follows a model turn with no tool requests and at least
\* one segment emits one output, the text of the first segment; no text of a
\* later segment is ever emitted or written to a response.
C21_OnlyFirstSegmentEmitted ==
  [][/\ (pc = "collect" /\ toolCount = 0 /\ Len(response) > 0 /\ pc' # "collect")
          => /\ outMsg' = response[1].text
             /\ emitted' = [emitted EXCEPT ![cur] = Append(@, response[1].text)]
     /\ emitted' # emitted => (pc = "collect" /\ pc' = "write")
     /\ \A j \in 1..MaxInfer, k \in 2..MaxContent :
          /\ Text(j, k) \notin AllEmitted
          /\ outMsg # Text(j, k)
          /\ \A h \in Handlers : w[h].body # Text(j, k)]_vars

\* a turn of two text segments has been emitted and written
C21_Witness ==
  /\ Len(response) = 2
  /\ ToolUseIdx(response) = {}
  /\ cur # 0
  /\ emitted[cur] = <<response[1].text>>
  /\ \E h \in Handlers : w[h].body = response[1].text /\ w[h].status = StatusOK

(* ------------------------------- C22 ---------------------------------- *)

\* what the claim says of the result b of ExecuteTool(id, n, ...) when the
\* function of the tool, if called, returns out
IsResultOf(b, id, n, out) ==
  /\ b.type = "tool_result"
  /\ b.tool_use_id = id
  /\ b.is_error <=> (~ToolFound(n) \/ out.err # "")
  /\ ~b.is_error => b.content = out.result
  /\ (ToolFound(n) /\ out.err # "") => b.content = out.err

\* C22: the result of ExecuteTool carries the call identifier it was given;
\* its failure flag is set exactly when the tool name is unknown or the tool's
\* function returned an error; on success it carries the function's output,
\* on error the error's message. Checked for every input and for the result
\* of every tool goroutine that has run.
C22_ExecuteToolResult ==
  /\ \A id \in 1..MaxContent, n \in ToolNames, out \in FunctionOutcomes :
       IsResultOf(ExecuteTool(id, n, out).block, id, n, out)
  /\ \A g \in gor :
       g.st # "exec" =>
         \E out \in FunctionOutcomes : IsResultOf(g.block, g.id, g.name, out)

\* one batch held a call that succeeded and a call whose function failed
C22_Witness ==
  \E g1, g2 \in gor :
    /\ g1.batch = g2.batch
    /\ g1.st = "done" /\ g2.st = "done"
    /\ ToolFound(g1.name) /\ ToolFound(g2.name)
    /\ ~g1.block.is_error /\ g1.block.content = "contents"
    /\ g2.block.is_error /\ g2.block.content = "no such file"

(* ------------------------------- C23 ---------------------------------- *)

\* C23: the writer writeToNetwork takes from responseChan is the writer of
\* the request readFromNetwork returned in the same cycle, and a text written
\* to a writer is a text emitted for that writer's request.
C23_WriterOfSameRequest ==
  [][/\ takes' # takes => Head(responseChan) = cur
     /\ \A h \in Handlers :
          (w'[h].written > w[h].written /\ w'[h].status = StatusOK
             /\ ~w'[h].failed)
             => w'[h].body \in {emitted[h][i] : i \in 1..Len(emitted[h])}]_vars

(* ------------------------------- C24 ---------------------------------- *)

\* C24: a handler of a POST request returns only after writeToNetwork has
\* written to its own writer, having received the signal raised for its own
\* request, and no write is made to the writer of a handler that has
\* returned.
C24_ReturnsAfterOwnWrite ==
  \A h \in Handlers :
    /\ hpc[h] = "returned" =>
         /\ w[h].status = StatusOK /\ w[h].written >= 1
         /\ dones[h] >= 1
    /\ ~w[h].late

(* ------------------------------- C25 ---------------------------------- *)

\* C25: whenever Run is at the emit branch (the turn has no tool request and
\* nothing was collected) the model turn has a first segment, and Run never
\* panics.
C25_EmitHasSegment ==
  /\ (pc = "collect" /\ toolCount = 0) => Len(response) >= 1
  /\ pc # "panicked"

(* ------------------------------- C26 ---------------------------------- *)

\* the goroutines started for batch b
Batch(b) == {g \in gor : g.batch = b}

\* the collection loop of the current batch has finished
Collected == pc # "collect" \/ Len(toolResults) = toolCount

\* C26: when the collection loop of a batch has finished, every goroutine of
\* that batch and of every earlier batch has completed its send, and the
\* results collected so far are results of goroutines of the current batch,
\* one for each goroutine that completed its send.
C26_NoGoroutineLeftBehind ==
  /\ Collected => \A g \in gor : g.st = "done"
  /\ \A g \in gor : g.batch # ch => g.st = "done"
  /\ pc = "collect" =>
       /\ Len(toolResults) = Cardinality({g \in Batch(ch) : g.st = "done"})
       /\ \A i \in 1..Len(toolResults) :
            \E g \in Batch(ch) : g.st = "done" /\ toolResults[i] = g.block

\* the loop of a second batch has finished after a first batch of one tool
C26_Witness ==
  /\ pc = "collect"
  /\ ch = 2
  /\ toolCount = 1
  /\ Len(toolResults) = 1
  /\ Batch(1) # {}
  /\ \A g \in gor : g.st = "done"

(* ------------------------------- C27 ---------------------------------- *)

\* any number of concurrent handlers, under the scheduler's fairness
Live == Init /\ [][Next]_vars /\ Fairness

\* the handlers blocked in one of the channel operations of handleRequest
Waiting == {h \in Handlers : hpc[h] \in {"sendReq", "sendResp", "waitDone"}}

\* Run has stopped: it returned an error or panicked
Stopped == pc \in {"returned", "panicked"}

\* C27: while a handler is waiting, Run does not stay forever at the receive
\* of readFromNetwork, nor at the receive or the send of writeToNetwork, and
\* every completion signal raised is consumed by a handler (as long as Run is
\* running).
C27_HandshakeDeadlockFree ==
  /\ (pc = "top" /\ takeInput /\ Waiting # {}) ~> (pc # "top" \/ Waiting = {})
  /\ (pc = "write") ~> (pc # "write")
  /\ (pc = "signal") ~> (pc # "signal")
  /\ (Len(doneChan) = 1) ~> (Len(doneChan) = 0 \/ Stopped)

\* Run waits at the receive of writeToNetwork for a writer no handler has
\* sent yet, with every handler in the middle of a POST request
C27_Witness ==
  /\ pc = "write"
  /\ ~CanRecv(responseChan)
  /\ \A h \in Handlers : method[h] = "POST" /\ h \in Waiting
  /\ hpc[cur] = "sendResp"

====
